---- MODULE Spec2Model ----
(***************************************************************************)
(* Model of bhoggard/aar: processEmails (src/main.go) driving the JMAP     *)
(* client (src/jmap.go) and the screenshot generator (src/screenshot.go).  *)
(*                                                                         *)
(* The program is one sequential pass.  Its position is pc; every action   *)
(* is one external call of processEmails together with all the code that   *)
(* runs up to the next external call (or up to the return).  The mail      *)
(* server, the network and the rendering engine are the environment: each  *)
(* call draws the answer it gets from the set of answers the client code   *)
(* distinguishes.                                                          *)
(***************************************************************************)
EXTENDS Integers, Sequences, FiniteSets, TLC

\* ---- bounds -------------------------------------------------------------
MaxEmails == 2      \* most messages the source folder holds
MaxLimit == 2       \* largest -limit flag tried (0 = unlimited)

\* ---- program constants (src/main.go:11-17) ------------------------------
sourceFolder == "_aar"
archiveFolder == "_aar_processed"
screenshotDir == "./screenshots"

\* ---- identifiers --------------------------------------------------------
\* A message identifier is a string the server chooses.  What the program
\* does with it depends on one thing only: whether the string reads as an
\* RFC 3339 timestamp (shape "rfc3339": a second, and a zone suffix) or not
\* (shape "opaque").
OpaqueID(n) == [shape |-> "opaque", sec |-> n, zone |-> "none"]
StampID(s, z) == [shape |-> "rfc3339", sec |-> s, zone |-> z]

\* The identifiers the server may hold, in the server's listing order.
ServerOrder == << OpaqueID(1), StampID(0, "Z"), StampID(0, "+01:00"), StampID(1, "Z") >>
AllIDs == { ServerOrder[k] : k \in 1..Len(ServerOrder) }
NoID == [shape |-> "none", sec |-> 0, zone |-> "none"]

\* Mailbox identifiers.  "src2" and "arch2" are second folders carrying the
\* same display name as the source and the archive folder.
MailboxIDs == {"src", "src2", "arch", "arch2"}
NoMailbox == "none"

\* ---- Email records (src/jmap.go:57-84) ----------------------------------
NoBodyValues == [p \in {} |-> [Value |-> ""]]
\* The bodies a message may have: no HTML part; one part with content; one
\* part and no value stored for it; two parts, the first with an empty value.
Bodies ==
    { [HTMLBody |-> << >>, BodyValues |-> NoBodyValues],
      [HTMLBody |-> << [PartID |-> "p1"] >>,
       BodyValues |-> [p \in {"p1"} |-> [Value |-> "<p>one</p>"]]],
      [HTMLBody |-> << [PartID |-> "p1"] >>, BodyValues |-> NoBodyValues],
      [HTMLBody |-> << [PartID |-> "p1"], [PartID |-> "p2"] >>,
       BodyValues |-> [p \in {"p1", "p2"} |->
                          [Value |-> IF p = "p1" THEN "" ELSE "<p>two</p>"]]] }

\* The position of an identifier in the server's order; the receipt time
\* of a message (Email.ReceivedAt, an RFC 3339 string) is fixed per
\* identifier and different from any time an identifier itself may read as.
ReceivedAtOf(id) ==
    CHOOSE k \in 1..Len(ServerOrder) : ServerOrder[k] = id

Email(id, body) ==
    [ID |-> id, ReceivedAt |-> StampID(10 + ReceivedAtOf(id), "Z"),
     HTMLBody |-> body.HTMLBody, BodyValues |-> body.BodyValues]

VARIABLES
    \* inputs of the run (src/main.go:19-22)
    limit, dryRun,
    \* the mail server
    mailboxes,      \* display name -> sequence of mailbox ids carrying it
    mailboxIds,     \* message id -> set of mailbox ids it is a member of
    emailDetails,   \* message id -> body of the message
    \* processEmails
    pc, sourceMailbox, archiveMailbox, emailIDs, i, htmlContent,
    processedCount, failedCount, result, err, output,
    \* the world outside
    calls,          \* the calls made on EmailClient / ScreenshotService
    files,          \* the os.WriteFile calls that succeeded, in order
    lastReply       \* the answer of the server to the latest request

vars == << limit, dryRun, mailboxes, mailboxIds, emailDetails, pc,
           sourceMailbox, archiveMailbox, emailIDs, i, htmlContent,
           processedCount, failedCount, result, err, output, calls, files,
           lastReply >>

serverVars == << mailboxes, mailboxIds, emailDetails >>
inputVars == << limit, dryRun >>


\* ---- errors and results -------------------------------------------------
\* A Go error is modelled by its message; Nil is the nil error.
Nil == "nil"

\* ProcessResult (src/main.go:24-29); NoResult is the nil *ProcessResult.
ProcessResult(total, processed, failed) ==
    [isNil |-> FALSE, TotalCount |-> total, ProcessedCount |-> processed,
     FailedCount |-> failed]
NoResult ==
    [isNil |-> TRUE, TotalCount |-> 0, ProcessedCount |-> 0, FailedCount |-> 0]

\* The error processEmails returns: fmt.Errorf("<prefix> '<folder>': %w", cause).
ProcessError(prefix, folder, cause) ==
    [prefix |-> prefix, folder |-> folder, cause |-> cause]
NoError == ProcessError(Nil, "", Nil)

\* One line written to the output writer, and one recorded call with the
\* error it returned.
Line(text, id) == [text |-> text, id |-> id]
Call(op, arg, e) == [op |-> op, arg |-> arg, err |-> e]

\* What is kept of an answer of the server: its kind, the type of a
\* method-level error, and whether the server carried an update out.
Reply(kind, type, applied) == [kind |-> kind, type |-> type, applied |-> applied]
NoReply == Reply("none", "", FALSE)

\* ---- the mail server ----------------------------------------------------
\* The answers makeRequest and the decoding steps of a client method tell
\* apart: the request fails (transport error or a status other than 200),
\* the body is no JSON, methodResponses is too short, the method answers
\* with a method-level "error", or it answers normally.
FailedReplies == {"requestFailed", "undecodable", "tooFew"}

\* Mailbox/query + Mailbox/get for a display name.
MailboxReplies(name) ==
    { [kind |-> k, list |-> << >>] : k \in FailedReplies \cup {"methodError"} }
      \cup { [kind |-> "answer", list |-> mailboxes[name]] }

\* QueryArgs with the limit never put into the request.
QueryArgsWithoutLimit(mailboxID, lim) ==
    [inMailbox |-> mailboxID, limit |-> 0]

\* The argument of Email/query built by GetEmailsInMailbox: the limit is
\* sent only when it is positive (0 here stands for "no limit key").
QueryArgs(mailboxID, lim) ==
    [inMailbox |-> mailboxID, limit |-> IF lim > 0 THEN lim ELSE 0]

Min(a, b) == IF a < b THEN a ELSE b

\* Email/query on the server: the members of the mailbox in server order,
\* cut to the limit when the request carries one.
ServerQuery(args) ==
    LET members == SelectSeq(ServerOrder,
                             LAMBDA id : args.inMailbox \in mailboxIds[id])
    IN  IF args.limit > 0
        THEN SubSeq(members, 1, Min(args.limit, Len(members)))
        ELSE members

QueryReplies(args) ==
    { [kind |-> k, ids |-> << >>] : k \in FailedReplies \cup {"methodError"} }
      \cup { [kind |-> "answer", ids |-> ServerQuery(args)] }

\* Email/get on the server for one id: the record of the message, or an
\* empty list when the server does not hold the id.
ServerGet(id) ==
    IF mailboxIds[id] = {} THEN << >> ELSE << Email(id, emailDetails[id]) >>

GetReplies(id) ==
    { [kind |-> k, list |-> << >>] : k \in FailedReplies \cup {"methodError"} }
      \cup { [kind |-> "answer", list |-> ServerGet(id)] }

\* Email/set on the server for the patch {mailboxIds/from: null,
\* mailboxIds/to: true} of one message.  "applied" tells whether the server
\* carried the update out.  The update is one patch of one object: it is
\* applied whole or not at all.  When the request fails on the way
\* (httpClient.Do or io.ReadAll of the body, jmap.go:161-172) or the body
\* cannot be decoded (jmap.go:379), the server may or may not have carried
\* the update out: the answer may be what got lost.
SetReplies(id) ==
    { [kind |-> k, type |-> "", applied |-> a] :
         k \in {"requestFailed", "undecodable"}, a \in BOOLEAN }
      \cup { [kind |-> "tooFew", type |-> "", applied |-> FALSE] }
      \cup { [kind |-> "methodError", type |-> t, applied |-> FALSE] :
                t \in {"accountReadOnly", "serverFail"} }
      \cup { [kind |-> "notUpdated", type |-> "", applied |-> FALSE] }
      \cup { [kind |-> "updated", type |-> "", applied |-> TRUE] }

\* Patched without the removal from the source mailbox.
PatchedKeepingSource(members, from, to) == members \cup {to}

\* The membership of a message after the patch of MoveEmail.
Patched(members, from, to) == (members \ {from}) \cup {to}


\* ---- JMAPClient (src/jmap.go) -------------------------------------------
\* Each method is given as the value it returns for the reply it receives.

\* FindMailboxByName: an error for a failed request, an undecodable body or
\* fewer than two method responses; "not found" when the decoded list is
\* empty (a method-level error decodes to an empty list); otherwise the
\* FIRST mailbox of the list.
\* FindMailboxByName taking the last folder of the list (jmap.go:237).
FindMailboxByNameTakingLast(name, reply) ==
    IF reply.kind = "requestFailed"
    THEN [err |-> "request failed", mailbox |-> NoMailbox]
    ELSE IF reply.kind = "undecodable"
    THEN [err |-> "failed to decode response", mailbox |-> NoMailbox]
    ELSE IF reply.kind = "tooFew"
    THEN [err |-> "unexpected response format", mailbox |-> NoMailbox]
    ELSE IF Len(reply.list) = 0
    THEN [err |-> "mailbox not found", mailbox |-> NoMailbox]
    ELSE [err |-> Nil, mailbox |-> reply.list[Len(reply.list)]]

FindMailboxByName(name, reply) ==
    IF reply.kind = "requestFailed"
    THEN [err |-> "request failed", mailbox |-> NoMailbox]
    ELSE IF reply.kind = "undecodable"
    THEN [err |-> "failed to decode response", mailbox |-> NoMailbox]
    ELSE IF reply.kind = "tooFew"
    THEN [err |-> "unexpected response format", mailbox |-> NoMailbox]
    ELSE IF Len(reply.list) = 0
    THEN [err |-> "mailbox not found", mailbox |-> NoMailbox]
    ELSE [err |-> Nil, mailbox |-> reply.list[1]]

\* GetEmailsInMailbox: the ids of the decoded Email/query answer; a
\* method-level error decodes to no ids and is returned without an error.
GetEmailsInMailbox(reply) ==
    IF reply.kind = "requestFailed"
    THEN [err |-> "request failed", ids |-> << >>]
    ELSE IF reply.kind = "undecodable"
    THEN [err |-> "failed to decode response", ids |-> << >>]
    ELSE IF reply.kind = "tooFew"
    THEN [err |-> "unexpected response format", ids |-> << >>]
    ELSE [err |-> Nil, ids |-> reply.ids]

\* GetEmails: the list of the decoded Email/get answer, whatever its length.
\* GetEmails returning an error when the decoded list is empty
\* (jmap.go:344-349 returns the list as it is).
GetEmailsFailingOnMissing(reply) ==
    IF reply.kind = "requestFailed"
    THEN [err |-> "request failed", list |-> << >>]
    ELSE IF reply.kind = "undecodable"
    THEN [err |-> "failed to decode response", list |-> << >>]
    ELSE IF reply.kind = "tooFew"
    THEN [err |-> "unexpected response format", list |-> << >>]
    ELSE IF Len(reply.list) = 0
    THEN [err |-> "email not found", list |-> << >>]
    ELSE [err |-> Nil, list |-> reply.list]

GetEmails(reply) ==
    IF reply.kind = "requestFailed"
    THEN [err |-> "request failed", list |-> << >>]
    ELSE IF reply.kind = "undecodable"
    THEN [err |-> "failed to decode response", list |-> << >>]
    ELSE IF reply.kind = "tooFew"
    THEN [err |-> "unexpected response format", list |-> << >>]
    ELSE [err |-> Nil, list |-> reply.list]

\* MoveEmail without the look at notUpdated (jmap.go:420-423).
MoveEmailIgnoringNotUpdated(reply) ==
    IF reply.kind = "requestFailed" THEN "request failed"
    ELSE IF reply.kind = "undecodable" THEN "failed to decode response"
    ELSE IF reply.kind = "tooFew" THEN "unexpected response format"
    ELSE IF reply.kind = "methodError"
    THEN IF reply.type = "accountReadOnly"
         THEN "API key has read-only permissions"
         ELSE "JMAP error"
    ELSE Nil

\* MoveEmail without the accountReadOnly case (jmap.go:396-398).
MoveEmailWithoutReadOnlyCase(reply) ==
    IF reply.kind = "requestFailed" THEN "request failed"
    ELSE IF reply.kind = "undecodable" THEN "failed to decode response"
    ELSE IF reply.kind = "tooFew" THEN "unexpected response format"
    ELSE IF reply.kind = "methodError" THEN "JMAP error"
    ELSE IF reply.kind = "notUpdated" THEN "failed to move email"
    ELSE Nil

\* MoveEmail: the error it returns (Nil for success).
MoveEmail(reply) ==
    IF reply.kind = "requestFailed" THEN "request failed"
    ELSE IF reply.kind = "undecodable" THEN "failed to decode response"
    ELSE IF reply.kind = "tooFew" THEN "unexpected response format"
    ELSE IF reply.kind = "methodError"
    THEN IF reply.type = "accountReadOnly"
         THEN "API key has read-only permissions"
         ELSE "JMAP error"
    ELSE IF reply.kind = "notUpdated" THEN "failed to move email"
    ELSE Nil

\* ---- ScreenshotGenerator (src/screenshot.go) ----------------------------
\* time.Parse(time.RFC3339, s): succeeds on a string of that shape only and
\* yields the instant with its zone.
ParseRFC3339(s) ==
    IF s.shape = "rfc3339"
    THEN [err |-> Nil, sec |-> s.sec, zone |-> s.zone]
    ELSE [err |-> "failed to parse timestamp", sec |-> 0, zone |-> "none"]

\* t.Format("2006-01-02-15-04-05"): the wall-clock second of t in t's own
\* zone; the zone itself is not part of the text.
FormatTime(t) == << "stamp", t.sec >>

\* filepath.Join(outputDir, formattedTime + ".png")
OutputPath(dir, formattedTime) == << dir, formattedTime, ".png" >>
NoPath == << >>

\* GenerateScreenshot without the return on the parse error
\* (screenshot.go:39-41): it goes on with the zero time.
GenerateScreenshotIgnoringParseError(timestamp, html, engine, write) ==
    LET t == ParseRFC3339(timestamp)
        outputPath == OutputPath(screenshotDir, FormatTime(t))
    IN  IF engine # "ok"
        THEN [err |-> "failed to generate screenshot", path |-> NoPath,
              ran |-> TRUE, wrote |-> FALSE]
        ELSE IF write # "ok"
        THEN [err |-> "failed to write screenshot", path |-> NoPath,
              ran |-> TRUE, wrote |-> FALSE]
        ELSE [err |-> Nil, path |-> outputPath, ran |-> TRUE, wrote |-> TRUE]

\* GenerateScreenshot(timestamp, htmlContent) for the outcome of the engine
\* run ("ok" or "failed") and of os.WriteFile ("ok" or "failed"):
\* ran = chromedp.Run was invoked, wrote = the file was written.
GenerateScreenshot(timestamp, html, engine, write) ==
    LET t == ParseRFC3339(timestamp)
        outputPath == OutputPath(screenshotDir, FormatTime(t))
    IN  IF t.err # Nil
        THEN [err |-> t.err, path |-> NoPath, ran |-> FALSE, wrote |-> FALSE]
        ELSE IF engine # "ok"
        THEN [err |-> "failed to generate screenshot", path |-> NoPath,
              ran |-> TRUE, wrote |-> FALSE]
        ELSE IF write # "ok"
        THEN [err |-> "failed to write screenshot", path |-> NoPath,
              ran |-> TRUE, wrote |-> FALSE]
        ELSE [err |-> Nil, path |-> outputPath, ran |-> TRUE, wrote |-> TRUE]

\* ---- extractHTMLContent (src/main.go:162-177) ---------------------------
\* extractHTMLContent going on to later HTML parts when the first one has
\* no content.
extractHTMLContentOfAnyPart(email) ==
    LET filled == { k \in 1..Len(email.HTMLBody) :
                      /\ email.HTMLBody[k].PartID \in DOMAIN email.BodyValues
                      /\ email.BodyValues[email.HTMLBody[k].PartID].Value # "" }
    IN  IF filled = {}
        THEN ""
        ELSE email.BodyValues[
                 email.HTMLBody[CHOOSE k \in filled : \A j \in filled : k <= j].PartID
             ].Value

extractHTMLContent(email) ==
    IF Len(email.HTMLBody) = 0
    THEN ""
    ELSE LET partID == email.HTMLBody[1].PartID
         IN  IF partID \in DOMAIN email.BodyValues
             THEN email.BodyValues[partID].Value
             ELSE ""


\* ---- processEmails (src/main.go:69-160) ---------------------------------
\* The decisions processEmails takes on what a call returned.

\* AfterFindSource without the `if err != nil` return.
AfterFindSourceIgnoringError(r) ==
    [pc |-> "findArchive", mailbox |-> r.mailbox, err |-> NoError]

\* main.go:71-74: the source folder lookup failed -> return (nil, error).
AfterFindSource(r) ==
    IF r.err # Nil
    THEN [pc |-> "done", mailbox |-> NoMailbox,
          err |-> ProcessError("failed to find source folder", sourceFolder, r.err)]
    ELSE [pc |-> "findArchive", mailbox |-> r.mailbox, err |-> NoError]

\* AfterFindArchive without the `if err != nil` return.
AfterFindArchiveIgnoringError(r) ==
    [pc |-> "list", mailbox |-> r.mailbox, err |-> NoError]

\* main.go:77-80: the archive folder lookup failed -> return (nil, error).
AfterFindArchive(r) ==
    IF r.err # Nil
    THEN [pc |-> "done", mailbox |-> NoMailbox,
          err |-> ProcessError("failed to find archive folder", archiveFolder, r.err)]
    ELSE [pc |-> "list", mailbox |-> r.mailbox, err |-> NoError]

\* main.go:98-101: the lines of the dry run, one per listed id.
DryRunLines(ids) ==
    << Line("DRY RUN MODE - No changes will be made", NoID),
       Line("Would process emails", NoID) >>
      \o [k \in 1..Len(ids) |-> Line("Email ID", ids[k])]

\* ListingFailedReturn reporting an empty folder instead of the error.
ListingFailedSwallowed(cause) ==
    [pc |-> "done", result |-> ProcessResult(0, 0, 0),
     out |-> << Line("No emails found in folder", NoID) >>,
     err |-> NoError]

\* main.go:84-86: the listing failed -> return (nil, error).
ListingFailedReturn(cause) ==
    [pc |-> "done", result |-> NoResult, out |-> << >>,
     err |-> ProcessError("failed to retrieve emails", "", cause)]

\* NothingListedReturn treating the empty folder as an error.
NothingListedAsError ==
    [pc |-> "done", result |-> NoResult, out |-> << >>,
     err |-> ProcessError("no emails found", sourceFolder, Nil)]

\* main.go:88-92: no id listed -> report it and return the zero result.
NothingListedReturn ==
    [pc |-> "done", result |-> ProcessResult(0, 0, 0),
     out |-> << Line("No emails found in folder", NoID) >>,
     err |-> NoError]

\* DryRunReturn that prints the preview and then falls into the loop.
DryRunFallingThrough(ids) ==
    [pc |-> "fetch", result |-> NoResult,
     out |-> << Line("Found email(s) in folder", NoID) >> \o DryRunLines(ids),
     err |-> NoError]

\* main.go:96-103: dry run -> print the ids and return (count, 0, 0).
DryRunReturn(ids) ==
    [pc |-> "done", result |-> ProcessResult(Len(ids), 0, 0),
     out |-> << Line("Found email(s) in folder", NoID) >> \o DryRunLines(ids),
     err |-> NoError]

\* main.go:94,105-107: otherwise enter the loop at the first id.
EnterLoop ==
    [pc |-> "fetch", result |-> NoResult,
     out |-> << Line("Found email(s) in folder", NoID) >>,
     err |-> NoError]

\* main.go:83-103: what processEmails does with the answer of
\* GetEmailsInMailbox.
AfterList(r, dry) ==
    IF r.err # Nil THEN ListingFailedReturn(r.err)
    ELSE IF Len(r.ids) = 0 THEN NothingListedReturn
    ELSE IF dry THEN DryRunReturn(r.ids)
    ELSE EnterLoop

\* The test of main.go:129 never finding the content empty.
IsEmptyContentNever(content) == FALSE

\* main.go:129: htmlContent == ""
IsEmptyContent(content) == content = ""

\* main.go:111-133: what the loop body does with the answer of GetEmails.
AfterFetch(r, id) ==
    IF r.err # Nil
    THEN [next |-> "failed", html |-> "",
          out |-> << Line("Failed to fetch email", id) >>]
    ELSE IF Len(r.list) = 0
    THEN [next |-> "failed", html |-> "",
          out |-> << Line("Email not found", id) >>]
    ELSE LET email == r.list[1]
             content == extractHTMLContent(email)
         IN  IF IsEmptyContent(content)
             THEN [next |-> "failed", html |-> "",
                   out |-> << Line("Subject", id),
                              Line("No HTML content found", id) >>]
             ELSE [next |-> "render", html |-> content,
                   out |-> << Line("Subject", id) >>]

\* AfterRender without the `if err != nil` branch: the move follows whatever
\* the generator returned.
AfterRenderIgnoringError(g, id) ==
    [next |-> "move", out |-> << Line("Screenshot generated", id) >>]

\* main.go:136-142: what the loop body does with the answer of
\* GenerateScreenshot.
AfterRender(g, id) ==
    IF g.err # Nil
    THEN [next |-> "failed", out |-> << Line("Failed to generate screenshot", id) >>]
    ELSE [next |-> "move", out |-> << Line("Screenshot generated", id) >>]

\* AfterMove with the error check inverted (`err == nil` for `err != nil`).
AfterMoveInverted(e, id) ==
    IF e = Nil
    THEN [next |-> "failed", out |-> << Line("Failed to move email to archive", id) >>]
    ELSE [next |-> "processed", out |-> << Line("Moved to archive folder", id) >>]

\* AfterMove counting the message as processed although the move failed.
AfterMoveCountingProcessed(e, id) ==
    IF e # Nil
    THEN [next |-> "processed", out |-> << Line("Failed to move email to archive", id) >>]
    ELSE [next |-> "processed", out |-> << Line("Moved to archive folder", id) >>]

\* main.go:145-152: what the loop body does with the answer of MoveEmail.
AfterMove(e, id) ==
    IF e # Nil
    THEN [next |-> "failed", out |-> << Line("Failed to move email to archive", id) >>]
    ELSE [next |-> "processed", out |-> << Line("Moved to archive folder", id) >>]

\* Tally with the failedCount++ of the failure branches left out.
TallyWithoutFailures(next, processed, failed) ==
    IF next = "processed" THEN [processed |-> processed + 1, failed |-> failed]
    ELSE [processed |-> processed, failed |-> failed]

\* main.go:114,120,131,139,147 (failedCount++) and main.go:152
\* (processedCount++): the counters after a message ended as `next`.
Tally(next, processed, failed) ==
    IF next = "failed" THEN [processed |-> processed, failed |-> failed + 1]
    ELSE IF next = "processed" THEN [processed |-> processed + 1, failed |-> failed]
    ELSE [processed |-> processed, failed |-> failed]

\* EndOfBody with a failure ending the loop (`break` for `continue`).
EndOfBodyBreakingOnFailure(next) ==
    LET t == Tally(next, processedCount, failedCount)
    IN  /\ processedCount' = t.processed
        /\ failedCount' = t.failed
        /\ i' = i + 1
        /\ htmlContent' = ""
        /\ IF i + 1 < Len(emailIDs) /\ next # "failed"
           THEN /\ pc' = "fetch"
                /\ result' = result
           ELSE /\ pc' = "done"
                /\ result' = ProcessResult(Len(emailIDs), t.processed, t.failed)

\* EndOfBody without the return after the last id (main.go:155-159): the
\* run stays in the loop with nothing left to do.
EndOfBodyWithoutReturn(next) ==
    LET t == Tally(next, processedCount, failedCount)
    IN  /\ processedCount' = t.processed
        /\ failedCount' = t.failed
        /\ i' = i + 1
        /\ htmlContent' = ""
        /\ result' = result
        /\ pc' = IF i + 1 < Len(emailIDs) THEN "fetch" ELSE "loop"

\* EndOfBody with one retry: a message that failed is taken up once more
\* before the loop goes on.
EndOfBodyRetryingFailure(next) ==
    LET t == Tally(next, processedCount, failedCount)
        again == /\ next = "failed"
                 /\ Cardinality({ k \in 1..Len(calls) :
                                    /\ calls[k].op = "GetEmails"
                                    /\ calls[k].arg = emailIDs[i + 1] }) < 2
    IN  /\ processedCount' = t.processed
        /\ failedCount' = t.failed
        /\ i' = IF again THEN i ELSE i + 1
        /\ htmlContent' = ""
        /\ IF again \/ i + 1 < Len(emailIDs)
           THEN /\ pc' = "fetch"
                /\ result' = result
           ELSE /\ pc' = "done"
                /\ result' = ProcessResult(Len(emailIDs), t.processed, t.failed)

\* main.go:107 and 155-159: `continue` / end of the loop body.  The message
\* at position i+1 is finished: go on with the next id, or return the
\* result when the listing is exhausted.
EndOfBody(next) ==
    LET t == Tally(next, processedCount, failedCount)
    IN  /\ processedCount' = t.processed
        /\ failedCount' = t.failed
        /\ i' = i + 1
        /\ htmlContent' = ""
        /\ IF i + 1 < Len(emailIDs)
           THEN /\ pc' = "fetch"
                /\ result' = result
           ELSE /\ pc' = "done"
                /\ result' = ProcessResult(Len(emailIDs), t.processed, t.failed)

\* The id the loop body is working on.
emailID == emailIDs[i + 1]


\* ---- initial states -----------------------------------------------------
\* The flags, the folders the server has under the two names, and up to
\* MaxEmails messages in the source folder "src", each with one of Bodies.
EmptyBody == [HTMLBody |-> << >>, BodyValues |-> NoBodyValues]

Init ==
    /\ limit \in 0..MaxLimit
    /\ dryRun \in BOOLEAN
    /\ \E s \in { << >>, << "src" >>, << "src2", "src" >> },
          a \in { << >>, << "arch" >>, << "arch", "arch2" >> } :
          mailboxes = [n \in {sourceFolder, archiveFolder} |->
                          IF n = sourceFolder THEN s ELSE a]
    /\ \E inbox \in SUBSET AllIDs :
          /\ Cardinality(inbox) <= MaxEmails
          /\ mailboxIds = [id \in AllIDs |-> IF id \in inbox THEN {"src"} ELSE {}]
          /\ \E bodies \in [inbox -> Bodies] :
                emailDetails = [id \in AllIDs |->
                                   IF id \in inbox THEN bodies[id] ELSE EmptyBody]
    /\ pc = "findSource"
    /\ sourceMailbox = NoMailbox
    /\ archiveMailbox = NoMailbox
    /\ emailIDs = << >>
    /\ i = 0
    /\ htmlContent = ""
    /\ processedCount = 0
    /\ failedCount = 0
    /\ result = NoResult
    /\ err = NoError
    /\ output = << >>
    /\ calls = << >>
    /\ files = << >>
    /\ lastReply = NoReply

\* ---- actions ------------------------------------------------------------
\* main.go:70-74
FindSource ==
    /\ pc = "findSource"
    /\ \E reply \in MailboxReplies(sourceFolder) :
          LET r == FindMailboxByName(sourceFolder, reply)
              d == AfterFindSource(r)
          IN  /\ calls' = Append(calls, Call("FindMailboxByName", sourceFolder, r.err))
              /\ lastReply' = Reply(reply.kind, "", FALSE)
              /\ sourceMailbox' = d.mailbox
              /\ err' = d.err
              /\ pc' = d.pc
    /\ UNCHANGED << inputVars, serverVars, archiveMailbox, emailIDs, i,
                    htmlContent, processedCount, failedCount, result, output,
                    files >>

\* main.go:76-80
FindArchive ==
    /\ pc = "findArchive"
    /\ \E reply \in MailboxReplies(archiveFolder) :
          LET r == FindMailboxByName(archiveFolder, reply)
              d == AfterFindArchive(r)
          IN  /\ calls' = Append(calls, Call("FindMailboxByName", archiveFolder, r.err))
              /\ lastReply' = Reply(reply.kind, "", FALSE)
              /\ archiveMailbox' = d.mailbox
              /\ err' = d.err
              /\ pc' = d.pc
    /\ UNCHANGED << inputVars, serverVars, sourceMailbox, emailIDs, i,
                    htmlContent, processedCount, failedCount, result, output,
                    files >>

\* main.go:82-103
ListEmails ==
    /\ pc = "list"
    /\ \E reply \in QueryReplies(QueryArgs(sourceMailbox, limit)) :
          LET r == GetEmailsInMailbox(reply)
              d == AfterList(r, dryRun)
          IN  /\ calls' = Append(calls, Call("GetEmailsInMailbox", sourceMailbox, r.err))
              /\ lastReply' = Reply(reply.kind, "", FALSE)
              /\ emailIDs' = r.ids
              /\ err' = d.err
              /\ result' = d.result
              /\ output' = output \o d.out
              /\ pc' = d.pc
    /\ UNCHANGED << inputVars, serverVars, sourceMailbox, archiveMailbox, i,
                    htmlContent, processedCount, failedCount, files >>

\* main.go:108-133: GetEmails for the current id, then extractHTMLContent.
FetchEmail ==
    /\ pc = "fetch"
    /\ \E reply \in GetReplies(emailID) :
          LET r == GetEmails(reply)
              d == AfterFetch(r, emailID)
          IN  /\ calls' = Append(calls, Call("GetEmails", emailID, r.err))
              /\ lastReply' = Reply(reply.kind, "", FALSE)
              /\ output' = output \o << Line("Processing email", emailID) >> \o d.out
              /\ IF d.next = "render"
                 THEN /\ pc' = "render"
                      /\ htmlContent' = d.html
                      /\ UNCHANGED << i, processedCount, failedCount, result >>
                 ELSE EndOfBody(d.next)
    /\ UNCHANGED << inputVars, serverVars, sourceMailbox, archiveMailbox,
                    emailIDs, err, files >>

\* main.go:135-142: GenerateScreenshot is handed the message id where the
\* generator expects the timestamp (screenshot.go:36).
Render ==
    /\ pc = "render"
    /\ \E engine \in {"ok", "failed"}, write \in {"ok", "failed"} :
          LET g == GenerateScreenshot(emailID, htmlContent, engine, write)
              d == AfterRender(g, emailID)
          IN  /\ calls' = calls
                    \o << Call("GenerateScreenshot", emailID, g.err) >>
                    \o (IF g.ran THEN << Call("chromedp.Run", emailID,
                                         IF engine = "ok" THEN Nil ELSE "failed") >>
                        ELSE << >>)
              /\ files' = IF g.wrote
                          THEN Append(files, [path |-> g.path, of |-> emailID])
                          ELSE files
              /\ output' = output \o d.out
              /\ IF d.next = "move"
                 THEN /\ pc' = "move"
                      /\ UNCHANGED << i, htmlContent, processedCount,
                                      failedCount, result >>
                 ELSE EndOfBody(d.next)
    /\ UNCHANGED << inputVars, serverVars, sourceMailbox, archiveMailbox,
                    emailIDs, err, lastReply >>

\* main.go:144-152: MoveEmail, and the server carrying the patch out or not.
Move ==
    /\ pc = "move"
    /\ \E reply \in SetReplies(emailID) :
          LET e == MoveEmail(reply)
              d == AfterMove(e, emailID)
          IN  /\ calls' = Append(calls, Call("MoveEmail", emailID, e))
              /\ lastReply' = Reply(reply.kind, reply.type, reply.applied)
              /\ mailboxIds' =
                    IF reply.applied
                    THEN [mailboxIds EXCEPT ![emailID] =
                             Patched(@, sourceMailbox, archiveMailbox)]
                    ELSE mailboxIds
              /\ output' = output \o d.out
              /\ EndOfBody(d.next)
    /\ UNCHANGED << inputVars, mailboxes, emailDetails, sourceMailbox,
                    archiveMailbox, emailIDs, err, files >>

\* The environment: between the listing and the fetch of an id, the server
\* stops holding the message (another client destroyed it), so that
\* Email/get answers with an empty list (main.go:118-122).
Expunge ==
    /\ pc = "fetch"
    /\ mailboxIds[emailID] # {}
    /\ mailboxIds' = [mailboxIds EXCEPT ![emailID] = {}]
    /\ UNCHANGED << inputVars, mailboxes, emailDetails, pc, sourceMailbox,
                    archiveMailbox, emailIDs, i, htmlContent, processedCount,
                    failedCount, result, err, output, calls, files,
                    lastReply >>

Next ==
    \/ FindSource
    \/ FindArchive
    \/ ListEmails
    \/ FetchEmail
    \/ Render
    \/ Move
    \/ Expunge

Spec == Init /\ [][Next]_vars

\* ---- type invariant -----------------------------------------------------
TypeOK ==
    /\ limit \in 0..MaxLimit
    /\ dryRun \in BOOLEAN
    /\ pc \in {"findSource", "findArchive", "list", "fetch", "render", "move", "done"}
    /\ i \in 0..Len(emailIDs)
    /\ processedCount \in 0..Len(emailIDs)
    /\ failedCount \in 0..Len(emailIDs)
    /\ \A id \in AllIDs : mailboxIds[id] \subseteq MailboxIDs


\* ---- observations on a run ----------------------------------------------
\* The positions of the call log holding a call `op` on `arg`.
CallsOn(op, arg) ==
    { k \in 1..Len(calls) : calls[k].op = op /\ calls[k].arg = arg }
CallsOf(op) == { k \in 1..Len(calls) : calls[k].op = op }

\* The calls made for a single message.
MessageOps == {"GetEmails", "GenerateScreenshot", "chromedp.Run", "MoveEmail"}
NoMessageCall == \A k \in 1..Len(calls) : calls[k].op \notin MessageOps

HasLine(text, id) ==
    \E k \in 1..Len(output) : output[k].text = text /\ output[k].id = id

\* The lines that report a message as failed, and the ones before the move.
FailureTexts ==
    {"Failed to fetch email", "Email not found", "No HTML content found",
     "Failed to generate screenshot", "Failed to move email to archive"}
EarlyFailureTexts == FailureTexts \ {"Failed to move email to archive"}

\* The ids of the lines of output whose text is one of `texts`.
IDsOfLines(texts) ==
    AllIDs \cap { output[k].id :
                    k \in { j \in 1..Len(output) : output[j].text \in texts } }

FailedIDs == IDsOfLines(FailureTexts)
EarlyFailedIDs == IDsOfLines(EarlyFailureTexts)
ProcessedIDs == IDsOfLines({"Moved to archive folder"})

Returned == pc = "done"
ReturnedResult == Returned /\ ~result.isNil

\* ---- C1 -----------------------------------------------------------------
\* C1: every non-dry-run invocation that returns a result returns
\* ProcessedCount + FailedCount = TotalCount, and TotalCount is the number
\* of ids the listing returned.
C1_CountsAddUp ==
    (ReturnedResult /\ ~dryRun) =>
        /\ result.TotalCount = Len(emailIDs)
        /\ result.ProcessedCount + result.FailedCount = result.TotalCount

\* A run of two messages that ended with one processed and one failed.
C1_Witness ==
    /\ ReturnedResult /\ ~dryRun
    /\ result = ProcessResult(2, 1, 1)

\* ---- C2 -----------------------------------------------------------------
\* C2: a MoveEmail call for a message comes only after a GenerateScreenshot
\* call for the same message that returned no error; a message reported
\* failed at the fetch, the HTML extraction or the render has no MoveEmail
\* call and is not reported processed; the failed and processed counters
\* are the numbers of messages so reported; and no error is returned.
C2_MoveOnlyAfterRender ==
    /\ \A k \in CallsOf("MoveEmail") :
          \E j \in 1..(k - 1) :
              calls[j] = Call("GenerateScreenshot", calls[k].arg, Nil)
    /\ \A id \in EarlyFailedIDs :
          /\ CallsOn("MoveEmail", id) = {}
          /\ id \notin ProcessedIDs
    /\ failedCount = Cardinality(FailedIDs)
    /\ processedCount = Cardinality(ProcessedIDs)
    /\ FailedIDs # {} => err = NoError

\* A finished run in which one message failed at the render and another
\* was rendered and then moved.
C2_Witness ==
    /\ Returned
    /\ \E id \in AllIDs : HasLine("Failed to generate screenshot", id)
    /\ \E id \in AllIDs : CallsOn("MoveEmail", id) # {}


\* ---- C3 -----------------------------------------------------------------
\* C3 as stated: when the run has ended, every message reported failed is
\* a member of the source folder.
C3_FailedStaysInSource ==
    Returned => \A id \in FailedIDs : sourceMailbox \in mailboxIds[id]

\* The MoveEmail errors after which the client cannot know whether the
\* server carried the update out.
UnansweredMoveErrors == {"request failed", "failed to decode response"}

\* C3 as amended: when the run has ended, every message reported failed is
\* still a member of the source folder, unless the server no longer holds
\* the message at all, or the MoveEmail call for it failed without a
\* readable answer of the server.
C3_FailedStaysInSourceUnlessGoneOrUnanswered ==
    Returned =>
        \A id \in FailedIDs :
            \/ sourceMailbox \in mailboxIds[id]
            \/ mailboxIds[id] = {}
            \/ \E k \in CallsOn("MoveEmail", id) :
                  calls[k].err \in UnansweredMoveErrors

\* A finished run with a message that failed at the fetch, one that failed
\* at the move with an answer of the server, both still in the source folder.
C3_Witness ==
    /\ Returned
    /\ \E id \in AllIDs :
          /\ HasLine("Failed to fetch email", id)
          /\ sourceMailbox \in mailboxIds[id]
    /\ \E id \in AllIDs :
          /\ \E k \in CallsOn("MoveEmail", id) : calls[k].err = "failed to move email"
          /\ id \in FailedIDs
          /\ sourceMailbox \in mailboxIds[id]


\* The listing call returned ids to processEmails (GetEmailsInMailbox
\* without an error).
Listed == \E k \in CallsOf("GetEmailsInMailbox") : calls[k].err = Nil

\* ---- C4 -----------------------------------------------------------------
\* C4: in dry-run mode no GetEmails, GenerateScreenshot or MoveEmail call
\* is ever made, and a dry run that got its listing returns
\* (number of listed ids, 0, 0) and no error.
C4_DryRunTouchesNothing ==
    dryRun =>
        /\ NoMessageCall
        /\ files = << >>
        /\ (Returned /\ Listed) =>
              /\ result = ProcessResult(Len(emailIDs), 0, 0)
              /\ err = NoError

\* A finished dry run over a listing of two ids.
C4_Witness ==
    /\ dryRun /\ Returned /\ Listed
    /\ Len(emailIDs) = 2
    /\ HasLine("Email ID", emailIDs[2])

\* ---- C5 -----------------------------------------------------------------
\* C5: when the listing returns no id, processEmails returns the result
\* (0, 0, 0) and no error, writes the line "No emails found" and nothing
\* else, and makes no fetch, render or move call, in dry-run mode or not.
C5_EmptyListing ==
    (Returned /\ Listed /\ Len(emailIDs) = 0) =>
        /\ result = ProcessResult(0, 0, 0)
        /\ err = NoError
        /\ output = << Line("No emails found in folder", NoID) >>
        /\ NoMessageCall

\* A finished normal run whose source folder holds no message.
C5_Witness ==
    /\ Returned /\ Listed /\ ~dryRun
    /\ Len(emailIDs) = 0
    /\ \A id \in AllIDs : mailboxIds[id] = {}

\* ---- C6 -----------------------------------------------------------------
\* C6: if the lookup of the source folder fails, processEmails has returned
\* at once: the error names the source folder, there is no result, and the
\* lookup is the only call made (no listing, fetch, render or move).
C6_SourceFolderMissing ==
    (Len(calls) >= 1 /\ calls[1].err # Nil) =>
        /\ Returned
        /\ err = ProcessError("failed to find source folder", sourceFolder,
                              calls[1].err)
        /\ result.isNil
        /\ calls = << Call("FindMailboxByName", sourceFolder, calls[1].err) >>
        /\ output = << >> /\ files = << >>

\* The server has no folder named as the source folder, and the run ended.
C6_Witness ==
    /\ mailboxes[sourceFolder] = << >>
    /\ Len(calls) = 1
    /\ calls[1].err = "mailbox not found"

\* ---- C7 -----------------------------------------------------------------
\* C7: if the source folder is found and the lookup of the archive folder
\* fails, processEmails has returned at once: the error names the archive
\* folder, there is no result, and nothing was listed, fetched, rendered or
\* moved; the dry-run flag makes no difference.
C7_ArchiveFolderMissing ==
    (Len(calls) >= 2 /\ calls[1].err = Nil /\ calls[2].err # Nil) =>
        /\ Returned
        /\ err = ProcessError("failed to find archive folder", archiveFolder,
                              calls[2].err)
        /\ result.isNil
        /\ calls = << Call("FindMailboxByName", sourceFolder, Nil),
                      Call("FindMailboxByName", archiveFolder, calls[2].err) >>
        /\ output = << >> /\ files = << >>

\* A dry run on a server that has the source folder and no archive folder.
C7_Witness ==
    /\ dryRun
    /\ mailboxes[archiveFolder] = << >>
    /\ Len(calls) = 2
    /\ calls[1].err = Nil
    /\ calls[2].err = "mailbox not found"

\* ---- C8 -----------------------------------------------------------------
\* The calls whose failure is fatal to the run.
FatalOps == {"FindMailboxByName", "GetEmailsInMailbox"}

\* C8: processEmails returns an error exactly when a folder lookup or the
\* listing returned an error; then it returns no result and nothing has
\* been fetched, rendered or moved.  A failure of a per-message call never
\* gives an error: the run returns a result that counts it.
C8_ErrorIffSetupFails ==
    /\ err # NoError =>
          /\ Returned
          /\ result.isNil
          /\ NoMessageCall
          /\ files = << >>
    /\ Returned =>
          /\ err # NoError <=>
                \E k \in 1..Len(calls) :
                    calls[k].op \in FatalOps /\ calls[k].err # Nil
          /\ err = NoError <=> ~result.isNil
    /\ (\E k \in 1..Len(calls) : calls[k].op \in MessageOps /\ calls[k].err # Nil)
          => /\ err = NoError
             /\ failedCount >= 1
             /\ Returned => result.FailedCount >= 1

\* The listing call failed and the run ended with that error.
C8_Witness ==
    /\ Returned
    /\ err.prefix = "failed to retrieve emails"
    /\ Len(calls) = 3

\* ---- C9 -----------------------------------------------------------------
\* The ids GetEmails was called for, in call order.
FetchCalls == SelectSeq(calls, LAMBDA c : c.op = "GetEmails")
FetchedIDs == [k \in 1..Len(FetchCalls) |-> FetchCalls[k].arg]

\* C9: the ids GetEmails was called for are always a prefix of the listing,
\* and when a normal run has returned its result they are the whole
\* listing: no failure of a message keeps a later id from being attempted.
C9_FailureDoesNotAbort ==
    /\ Len(FetchedIDs) <= Len(emailIDs)
    /\ FetchedIDs = SubSeq(emailIDs, 1, Len(FetchedIDs))
    /\ (ReturnedResult /\ ~dryRun) => FetchedIDs = emailIDs

\* The first of two listed messages failed and the second was fetched.
C9_Witness ==
    /\ Len(emailIDs) = 2
    /\ emailIDs[1] \in FailedIDs
    /\ CallsOn("GetEmails", emailIDs[2]) # {}

\* ---- C10 ----------------------------------------------------------------
\* C10: a message without an HTML body part is never handed to
\* GenerateScreenshot or MoveEmail, and once fetched it is reported "No HTML
\* content found" and counted as failed, never as processed.
C10_NoHTMLNeverRendered ==
    \A id \in AllIDs :
        Len(emailDetails[id].HTMLBody) = 0 =>
            /\ CallsOn("GenerateScreenshot", id) = {}
            /\ CallsOn("MoveEmail", id) = {}
            /\ id \notin ProcessedIDs
            /\ HasLine("Subject", id) =>
                  /\ HasLine("No HTML content found", id)
                  /\ failedCount = Cardinality(FailedIDs)

\* A fetched message without an HTML body part, reported and counted.
C10_Witness ==
    \E id \in AllIDs :
        /\ Len(emailDetails[id].HTMLBody) = 0
        /\ HasLine("No HTML content found", id)
        /\ id.shape = "rfc3339"
        /\ failedCount >= 1

\* ---- C11 ----------------------------------------------------------------
\* The ids whose MoveEmail call returned an error, and the ids that have an
\* artifact written by a render of theirs.
MoveFailedIDs ==
    AllIDs \cap { calls[k].arg :
                    k \in { j \in CallsOf("MoveEmail") : calls[j].err # Nil } }
ArtifactIDs == { files[k].of : k \in 1..Len(files) }

\* C11: a message whose render succeeded and whose move then failed is
\* reported and counted as failed, not as processed; the artifact written
\* for it is still there; and the loop goes on with the next listed id.
C11_MoveFailureCountsFailed ==
    /\ \A id \in MoveFailedIDs :
          /\ CallsOn("GenerateScreenshot", id) # {}
          /\ \A k \in CallsOn("GenerateScreenshot", id) : calls[k].err = Nil
          /\ HasLine("Failed to move email to archive", id)
          /\ id \notin ProcessedIDs
          /\ id \in ArtifactIDs
    /\ failedCount = Cardinality(FailedIDs)
    /\ processedCount = Cardinality(ProcessedIDs)
    /\ \A k \in 1..Len(emailIDs) :
          (emailIDs[k] \in MoveFailedIDs /\ k < Len(emailIDs)) =>
              /\ i >= k
              /\ i = k => pc \in {"fetch", "render", "move"}
              /\ Returned => CallsOn("GetEmails", emailIDs[k + 1]) # {}
    /\ MoveFailedIDs # {} => err = NoError

\* The move of the first of two messages failed after its artifact was
\* written, and the second message was fetched afterwards.
C11_Witness ==
    /\ Len(emailIDs) = 2
    /\ emailIDs[1] \in MoveFailedIDs
    /\ emailIDs[1] \in ArtifactIDs
    /\ CallsOn("GetEmails", emailIDs[2]) # {}
    /\ Returned

\* ---- C12 ----------------------------------------------------------------
\* The number of messages the resolved source folder holds.
SourceCount ==
    Cardinality({ id \in AllIDs : sourceMailbox \in mailboxIds[id] })

\* C12: when the server answers the listing of a folder of N messages, the
\* run lists min(L, N) ids for a limit L > 0 and N ids for L = 0; the
\* result reports that number as TotalCount; and with L > 0 no more than L
\* ids are listed or fetched.
C12_LimitCapsListing ==
    /\ [][(pc = "list" /\ lastReply'.kind = "answer") =>
             Len(emailIDs') = (IF limit > 0 THEN Min(limit, SourceCount)
                               ELSE SourceCount)]_vars
    /\ [](ReturnedResult => result.TotalCount = Len(emailIDs))
    /\ [](limit > 0 => (Len(emailIDs) <= limit /\ Len(FetchedIDs) <= limit))

\* A finished run with limit 1 over a source folder that still holds two
\* messages: one id was listed, fetched and reported.
C12_Witness ==
    /\ ReturnedResult /\ ~dryRun
    /\ limit = 1
    /\ SourceCount = 2
    /\ result.TotalCount = 1
    /\ Len(FetchedIDs) = 1

\* ---- C13 ----------------------------------------------------------------
\* Every listed message has HTML content, and every call made for a message
\* returned without an error and found its message.
AllSucceeded ==
    /\ \A k \in 1..Len(emailIDs) :
          extractHTMLContent(Email(emailIDs[k], emailDetails[emailIDs[k]])) # ""
    /\ \A k \in 1..Len(calls) : calls[k].err = Nil
    /\ \A id \in AllIDs : ~HasLine("Email not found", id)

\* C13: a normal run in which both folders resolve, every listed message
\* has HTML content and every fetch, render and move succeeds returns
\* TotalCount = ProcessedCount = number listed and FailedCount = 0, has
\* written one artifact for each message, and leaves every listed message
\* in the archive folder and out of the source folder.
C13_AllSucceed ==
    (ReturnedResult /\ ~dryRun /\ AllSucceeded) =>
        /\ result = ProcessResult(Len(emailIDs), Len(emailIDs), 0)
        /\ Len(files) = Len(emailIDs)
        /\ \A k \in 1..Len(emailIDs) :
              /\ files[k].of = emailIDs[k]
              /\ archiveMailbox \in mailboxIds[emailIDs[k]]
              /\ sourceMailbox \notin mailboxIds[emailIDs[k]]

\* A finished run of two messages, both rendered and moved.
C13_Witness ==
    /\ ReturnedResult /\ ~dryRun /\ AllSucceeded
    /\ result = ProcessResult(2, 2, 0)

\* ---- C14 ----------------------------------------------------------------
\* The record the server holds of a message.
EmailOf(id) == Email(id, emailDetails[id])

\* C14: every artifact written lies under the output directory and is named
\* from the receipt timestamp of its message, formatted to the second.
C14_NamedFromReceiptTime ==
    \A k \in 1..Len(files) :
        files[k].path =
            OutputPath(screenshotDir,
                       FormatTime(ParseRFC3339(EmailOf(files[k].of).ReceivedAt)))

\* ---- C15 ----------------------------------------------------------------
\* C15: within a run no artifact path is written more than once, so two
\* rendered messages leave two files and no render overwrites the artifact
\* of an earlier message.
C15_NoPathWrittenTwice ==
    \A j, k \in 1..Len(files) :
        j # k => files[j].path # files[k].path

\* ---- C16 ----------------------------------------------------------------
\* The ids MoveEmail was called for, and the error of that call.
MovedIDs == AllIDs \cap { calls[k].arg : k \in CallsOf("MoveEmail") }
MoveErrorOf(id) == calls[CHOOSE k \in CallsOn("MoveEmail", id) : TRUE].err

\* Exactly one of the two folders holds the message.
InExactlyOne(id) ==
    (sourceMailbox \in mailboxIds[id]) # (archiveMailbox \in mailboxIds[id])

\* C16 as stated: after a MoveEmail call the message is in exactly one of
\* the two folders: the target if the call succeeded, the source if it
\* failed.
C16_OneFolderByOutcome ==
    \A id \in MovedIDs :
        /\ InExactlyOne(id)
        /\ MoveErrorOf(id) = Nil => archiveMailbox \in mailboxIds[id]
        /\ MoveErrorOf(id) # Nil => sourceMailbox \in mailboxIds[id]

\* The MoveEmail errors by which the server itself reports that it did not
\* update the message.
RejectedMoveErrors ==
    {"API key has read-only permissions", "JMAP error", "failed to move email"}

\* C16 as amended: each MoveEmail call is one update request, and after it
\* the message is in exactly one of the two folders, never in both or in
\* neither: the target if the call succeeded, the source if the server
\* reported the update as not made; when the call failed without a readable
\* answer it is either of the two.
C16_OneFolderUnlessUnanswered ==
    /\ \A id \in AllIDs : Cardinality(CallsOn("MoveEmail", id)) <= 1
    /\ \A id \in MovedIDs :
          /\ InExactlyOne(id)
          /\ MoveErrorOf(id) = Nil => archiveMailbox \in mailboxIds[id]
          /\ MoveErrorOf(id) \in RejectedMoveErrors =>
                sourceMailbox \in mailboxIds[id]
    /\ (Len(calls) > 0 /\ calls[Len(calls)].op = "MoveEmail") =>
          (lastReply.applied <=>
              archiveMailbox \in mailboxIds[calls[Len(calls)].arg])

\* One message moved into the archive, another whose move the server
\* rejected still in the source folder.
C16_Witness ==
    /\ \E id \in MovedIDs :
          MoveErrorOf(id) = Nil /\ mailboxIds[id] = {archiveMailbox}
    /\ \E id \in MovedIDs :
          MoveErrorOf(id) = "failed to move email" /\ mailboxIds[id] = {sourceMailbox}

\* ---- C17 ----------------------------------------------------------------
\* C17: MoveEmail returns an error when the server answers with a
\* method-level error (the read-only-credential error exactly for the type
\* accountReadOnly) or lists the message under notUpdated, and returns
\* success for the answer that lists the message as updated.
C17_MoveEmailVerdict ==
    (Len(calls) > 0 /\ calls[Len(calls)].op = "MoveEmail") =>
        LET e == calls[Len(calls)].err
        IN  /\ lastReply.kind = "methodError" =>
                  /\ e # Nil
                  /\ e = "API key has read-only permissions"
                        <=> lastReply.type = "accountReadOnly"
            /\ lastReply.kind = "notUpdated" => e = "failed to move email"
            /\ lastReply.kind = "updated" => e = Nil
            /\ e = Nil => lastReply.kind = "updated"

\* The server answered the latest MoveEmail with the error accountReadOnly.
C17_Witness ==
    /\ Len(calls) > 0
    /\ calls[Len(calls)] =
          Call("MoveEmail", calls[Len(calls)].arg, "API key has read-only permissions")
    /\ lastReply = Reply("methodError", "accountReadOnly", FALSE)

\* ---- C18 ----------------------------------------------------------------
\* The latest call is a FindMailboxByName the server answered with its list
\* of the folders of that name.
LookupAnswered ==
    /\ Len(calls) > 0
    /\ calls[Len(calls)].op = "FindMailboxByName"
    /\ lastReply.kind = "answer"

\* C18: FindMailboxByName fails with the not-found error when the server
\* returns no folder for the name; when the server returns several folders
\* it succeeds with the first of the returned list, and nothing reports the
\* ambiguity.
C18_FirstFolderOrNotFound ==
    /\ LookupAnswered =>
          LET c == calls[Len(calls)]
          IN  /\ mailboxes[c.arg] = << >> =>
                    /\ c.err = "mailbox not found"
                    /\ err.folder = c.arg
                    /\ err.cause = c.err
                    /\ pc = "done"
              /\ mailboxes[c.arg] # << >> =>
                    /\ c.err = Nil
                    /\ err = NoError
                    /\ output = << >>
                    /\ (IF c.arg = sourceFolder THEN sourceMailbox
                        ELSE archiveMailbox) = mailboxes[c.arg][1]
    /\ sourceMailbox # NoMailbox => sourceMailbox = mailboxes[sourceFolder][1]
    /\ archiveMailbox # NoMailbox => archiveMailbox = mailboxes[archiveFolder][1]

\* Two folders carry the source name and the first was taken; no folder
\* carries the archive name and the lookup failed.
C18_Witness ==
    /\ LookupAnswered
    /\ Len(mailboxes[sourceFolder]) = 2
    /\ sourceMailbox = mailboxes[sourceFolder][1]
    /\ mailboxes[archiveFolder] = << >>
    /\ calls[Len(calls)] =
          Call("FindMailboxByName", archiveFolder, "mailbox not found")

\* ---- C19 ----------------------------------------------------------------
\* The listed ids the server no longer holds, and those of them for which
\* the server answered the GetEmails call.
GoneIDs ==
    { id \in AllIDs :
        mailboxIds[id] = {} /\ \E k \in 1..Len(emailIDs) : emailIDs[k] = id }
GoneFetchedIDs ==
    { id \in GoneIDs :
        \E k \in CallsOn("GetEmails", id) : calls[k].err = Nil }

\* C19: when a listed id is no longer held by the server, the answered
\* GetEmails call returns no record of it and no error; the id is counted
\* as failed with 'Email not found', is neither rendered nor moved, and the
\* next listed id is handled.
C19_GoneCountsFailed ==
    /\ (/\ Len(calls) > 0
        /\ calls[Len(calls)].op = "GetEmails"
        /\ lastReply.kind = "answer"
        /\ calls[Len(calls)].arg \in GoneIDs) =>
            /\ calls[Len(calls)].err = Nil
            /\ calls[Len(calls)].arg \in GoneFetchedIDs
    /\ \A id \in GoneFetchedIDs :
          /\ HasLine("Email not found", id)
          /\ ~HasLine("Subject", id)
          /\ id \in FailedIDs
          /\ id \notin ProcessedIDs
          /\ CallsOn("GenerateScreenshot", id) = {}
          /\ CallsOn("MoveEmail", id) = {}
          /\ id \notin ArtifactIDs
    /\ failedCount = Cardinality(FailedIDs)
    /\ \A k \in 1..Len(emailIDs) :
          (emailIDs[k] \in GoneFetchedIDs /\ k < Len(emailIDs)) =>
              /\ i >= k
              /\ i = k => pc \in {"fetch", "render", "move"}
              /\ Returned => CallsOn("GetEmails", emailIDs[k + 1]) # {}
    /\ GoneFetchedIDs # {} => err = NoError

\* The first of two listed ids was gone when fetched and the second was
\* processed.
C19_Witness ==
    /\ ReturnedResult
    /\ Len(emailIDs) = 2
    /\ emailIDs[1] \in GoneFetchedIDs
    /\ calls[CHOOSE k \in CallsOn("GetEmails", emailIDs[1]) : TRUE].err = Nil
    /\ emailIDs[2] \in ProcessedIDs
    /\ result = ProcessResult(2, 1, 1)

\* ---- C20 ----------------------------------------------------------------
\* The position of a listed id in the listing (0 when it is not listed).
PositionOf(id) ==
    IF \E p \in 1..Len(emailIDs) : emailIDs[p] = id
    THEN CHOOSE p \in 1..Len(emailIDs) : emailIDs[p] = id
    ELSE 0

\* The calls made for single messages, in the order they were made.
MessageCalls == { k \in 1..Len(calls) : calls[k].op \in MessageOps }

\* The rank of a call within the handling of one message.
StepOf(op) ==
    IF op = "GetEmails" THEN 1
    ELSE IF op = "GenerateScreenshot" THEN 2
    ELSE IF op = "chromedp.Run" THEN 3
    ELSE 4

\* C20: in a non-dry-run invocation the listed ids are handled in listing
\* order, one at a time: every position gets exactly one GetEmails call, at
\* most one GenerateScreenshot call and at most one MoveEmail call, in that
\* order and before the GetEmails call of the next position; nothing is
\* retried or revisited.  (No call for a message is made twice, the calls
\* for messages follow one another without a gap, and each comes later in
\* that order than the call before it, hence later than every earlier one.)
C20_OneOrderedPass ==
    /\ \A p, q \in 1..Len(emailIDs) : p # q => emailIDs[p] # emailIDs[q]
    /\ \A k \in MessageCalls : PositionOf(calls[k].arg) > 0
    /\ Cardinality({ << calls[k].op, calls[k].arg >> : k \in MessageCalls }) =
          Cardinality(MessageCalls)
    /\ \A k \in MessageCalls :
          /\ k < Len(calls) => (k + 1) \in MessageCalls
          /\ (k - 1) \in MessageCalls =>
                \/ PositionOf(calls[k - 1].arg) < PositionOf(calls[k].arg)
                \/ /\ calls[k - 1].arg = calls[k].arg
                   /\ StepOf(calls[k - 1].op) < StepOf(calls[k].op)
    /\ \A id \in AllIDs :
          /\ CallsOn("GenerateScreenshot", id) # {} =>
                \E k \in CallsOn("GetEmails", id) : calls[k].err = Nil
          /\ CallsOn("MoveEmail", id) # {} =>
                \E k \in CallsOn("GenerateScreenshot", id) : calls[k].err = Nil
    /\ \A p \in 1..Len(emailIDs) :
          Cardinality(CallsOn("GetEmails", emailIDs[p])) =
              (IF p <= i \/ (p = i + 1 /\ pc \in {"render", "move"}) THEN 1 ELSE 0)
    /\ (ReturnedResult /\ ~dryRun) => i = Len(emailIDs)
    /\ dryRun => MessageCalls = {}

\* Two listed ids, both fetched, rendered and moved, the first wholly
\* before the second.
C20_Witness ==
    /\ ReturnedResult
    /\ ~dryRun
    /\ Len(emailIDs) = 2
    /\ \A p \in 1..2, op \in {"GetEmails", "GenerateScreenshot", "MoveEmail"} :
          Cardinality(CallsOn(op, emailIDs[p])) = 1
    /\ \A j \in CallsOn("MoveEmail", emailIDs[1]),
          k \in CallsOn("GetEmails", emailIDs[2]) : j < k

\* ---- C21 ----------------------------------------------------------------
\* The ids GetEmails returned a record for.
RecordIDs == IDsOfLines({"Subject"})

\* The message has an HTML part, and a value stored for the first one.
HasFirstValue(id) ==
    /\ emailDetails[id].HTMLBody # << >>
    /\ emailDetails[id].HTMLBody[1].PartID \in DOMAIN emailDetails[id].BodyValues

\* The value stored for the first HTML part.
FirstValue(id) ==
    emailDetails[id].BodyValues[emailDetails[id].HTMLBody[1].PartID].Value

\* Some HTML part after the first one has content.
LaterPartHasContent(id) ==
    \E k \in 2..Len(emailDetails[id].HTMLBody) :
        LET p == emailDetails[id].HTMLBody[k].PartID
        IN  /\ p \in DOMAIN emailDetails[id].BodyValues
            /\ emailDetails[id].BodyValues[p].Value # ""

\* C21: extractHTMLContent returns the body value stored for the first HTML
\* part, and the empty string when there is no HTML part or no value for
\* that part; later parts are never consulted, so a message whose first
\* part has a missing or empty value is counted as failed even when a later
\* part has content.
C21_FirstHTMLPartOnly ==
    /\ \A id \in RecordIDs :
          /\ extractHTMLContent(EmailOf(id)) =
                (IF HasFirstValue(id) THEN FirstValue(id) ELSE "")
          /\ (~HasFirstValue(id) \/ FirstValue(id) = "") =>
                /\ HasLine("No HTML content found", id)
                /\ id \in FailedIDs
                /\ id \notin ProcessedIDs
                /\ CallsOn("GenerateScreenshot", id) = {}
                /\ CallsOn("MoveEmail", id) = {}
          /\ (HasFirstValue(id) /\ FirstValue(id) # "") =>
                ~HasLine("No HTML content found", id)
    /\ pc \in {"render", "move"} =>
          /\ emailID \in RecordIDs
          /\ HasFirstValue(emailID)
          /\ htmlContent = FirstValue(emailID)
          /\ htmlContent # ""

\* A fetched message whose first HTML part is empty and whose second part
\* has content was counted as failed without a render.
C21_Witness ==
    /\ Returned
    /\ \E id \in RecordIDs :
          /\ HasFirstValue(id)
          /\ FirstValue(id) = ""
          /\ LaterPartHasContent(id)
          /\ HasLine("No HTML content found", id)
          /\ CallsOn("GenerateScreenshot", id) = {}
          /\ failedCount >= 1

\* ---- C22 ----------------------------------------------------------------
\* The GenerateScreenshot calls whose timestamp argument does not parse as
\* RFC 3339.
UnparsableRenderCalls ==
    { k \in CallsOf("GenerateScreenshot") : ParseRFC3339(calls[k].arg).err # Nil }

ProgramStep ==
    \/ FindSource
    \/ FindArchive
    \/ ListEmails
    \/ FetchEmail
    \/ Render
    \/ Move

\* processEmails is sequential code (main.go:69-160): as long as it has not
\* returned, its next call is made, and every call returns.
FairSpec == Spec /\ WF_vars(ProgramStep)

\* C23: for every finite listing and every combination of outcomes of the
\* single calls, processEmails eventually returns, having made at most one
\* fetch, one render and one move for each listed id, provided every
\* external call returns.
C23_Terminates ==
    /\ <>Returned
    /\ [](\A id \in AllIDs :
            /\ Cardinality(CallsOn("GetEmails", id)) <= 1
            /\ Cardinality(CallsOn("GenerateScreenshot", id)) <= 1
            /\ Cardinality(CallsOn("MoveEmail", id)) <= 1)
    /\ [](Cardinality(CallsOf("GetEmails")) <= Len(emailIDs))
    /\ [][Returned => UNCHANGED << pc, result, err, calls, output, files >>]_vars

\* A run over two listed ids returned after a failed fetch of one and a
\* failed move of the other.
C23_Witness ==
    /\ Returned
    /\ Len(emailIDs) = 2
    /\ Cardinality(CallsOf("GetEmails")) = 2
    /\ \E k \in CallsOf("GetEmails") : calls[k].err # Nil
    /\ \E k \in CallsOf("MoveEmail") : calls[k].err # Nil
    /\ result = ProcessResult(2, 0, 2)

====
